---- MODULE Spec2Model ----
(***************************************************************************)
(* Model of terabox.py: the token lifecycle kept in the user_requests      *)
(* collection (generate_uuid, activate_token, has_valid_token,             *)
(* start_handler) and the download-relay pipeline of one text message      *)
(* (handle_message, process_download, track_download_progress,             *)
(* handle_upload, split_and_upload, direct_upload, upload_file,            *)
(* split_video, cleanup).                                                  *)
(***************************************************************************)
EXTENDS Integers, Sequences, FiniteSets, TLC

VARIABLES
    collection,   \* db["user_requests"]: the documents, in insertion order
    now,          \* the reading of datetime.now(), in hours
    next_uuid,    \* number of uuid.uuid4() values drawn so far
    start_reply,  \* the last start_handler call: sender, command, caption
    user_client,  \* whether USER_SESSION_STRING configures the second client
    pc,           \* where the handle_message task of the text message stands
    req,          \* the text message: sender, membership, words, the refusal
    submissions,  \* the add_uris calls made: who asked, and their token then
    job,          \* the fetch job's status in the daemon
    dl,           \* download: the status the handle read at its last update()
    file_size,    \* size of the fetched artifact, in GiB
    disk,         \* the local files that exist
    status_msg,   \* the status message: "none", "shown" or "deleted"
    status_text,  \* the text the status message shows
    req_msg,      \* the request message: "shown" or "deleted"
    replies,      \* the texts replied to the requester
    mode,         \* the branch handle_upload took: "none", "split", "direct"
    sv_files,     \* split_video's local list split_files
    split_files,  \* split_and_upload's local split_files, once bound
    split_bound,  \* whether split_and_upload's split_files is bound
    up_i,         \* parts the upload loop has iterated over
    cur,          \* upload_file's file_path, <<>> outside upload_file
    thumb,        \* upload_file's thumbnail, <<>> for None
    sends,        \* the paths send_video was called with, in order
    copies,       \* the paths whose message was copied to the requester
    raised,       \* where the exception that left the try block came from
    cleanup_entered, \* whether cleanup() was called
    cleanup_tried,   \* which of cleanup's three actions were attempted
    split_failed,    \* whether ffprobe or an ffmpeg of split_video failed
    edit_tries,      \* edit_text calls of the safe_edit call made last
    pending,         \* upload_progress tasks created and not yet run
    inflight,        \* upload_progress tasks inside edit_text
    runs,            \* concurrent pipelines: where each stands, and its link
    artifacts,       \* the artifacts that exist in the daemon's directory
    disturbed        \* pipelines whose artifact another one wrote or removed

token_vars == <<collection, now, next_uuid, start_reply>>

pipe_vars ==
    <<user_client, pc, req, submissions, job, dl, file_size, disk, status_msg,
      status_text, req_msg, replies, mode, sv_files, split_files, split_bound,
      up_i, cur, thumb, sends, copies, raised, cleanup_entered,
      cleanup_tried, split_failed, edit_tries, pending, inflight>>

path_vars == <<runs, artifacts, disturbed>>

vars == <<token_vars, pipe_vars, path_vars>>

----------------------------------------------------------------------------
(* Bounds of the model *)

\* the clock is observed up to this hour
MaxTime == 13
\* at most this many uuid4 values are drawn
MaxTokens == 2
\* the fetched artifact is at most this many GiB
MaxSize == 5
\* the destination rate-limits at most this many edits of one safe_edit call
MaxEdits == 3
\* at most this many upload_progress tasks exist at a time
MaxProgress == 2

(* Program constants *)

TOKEN_EXPIRY_HOURS == 12
\* 2 * 1024**3 bytes, in GiB
DEFAULT_SPLIT_SIZE == 2
\* 4 * 1024**3 bytes, in GiB
VIP_SPLIT_SIZE == 4

\* the user identities that send messages
Users == {1, 2}

\* token_expiry: None
NoExpiry == -1

----------------------------------------------------------------------------
(* Strings: a string is modelled by its length and its content *)

\* str(uuid.uuid4()): the 36-character text of the k-th value drawn; uuid4
\* values are 122 random bits, the k-th differs from the earlier ones
uuid4_str(k) == [len |-> 36, val |-> k]

\* a /start argument that is not 36 characters long
ShortArg == [len |-> 8, val |-> 0]

\* message.command of a /start message
Commands ==
    {<<"start">>}
        \cup {<<"start", uuid4_str(k)>> : k \in 1..MaxTokens}
        \cup {<<"start", ShortArg>>}

----------------------------------------------------------------------------
(* The collection *)

\* the first of the documents a filter selects, given by their indexes; 0
\* when it selects none
FirstMatch(S) ==
    IF S = {} THEN 0 ELSE CHOOSE i \in S : \A j \in S : i <= j

\* collection.find_one({"user_id": user_id}); a missing document is <<>>
find_one(coll, user_id) ==
    LET i == FirstMatch({j \in DOMAIN coll : coll[j].user_id = user_id})
    IN  IF i = 0 THEN <<>> ELSE <<coll[i]>>

\* generate_uuid with an insert in place of the upsert
generate_uuid_insert(coll, user_id, token) ==
    Append(coll, [user_id |-> user_id, token |-> token,
                  token_status |-> "inactive", token_expiry |-> NoExpiry])

\* the collection after generate_uuid's update_one(..., upsert=True)
generate_uuid(coll, user_id, token) ==
    LET i == FirstMatch({j \in DOMAIN coll : coll[j].user_id = user_id})
    IN  IF i = 0
        THEN Append(coll, [user_id |-> user_id, token |-> token,
                           token_status |-> "inactive", token_expiry |-> NoExpiry])
        ELSE [coll EXCEPT ![i] = [@ EXCEPT !.token = token,
                                           !.token_status = "inactive",
                                           !.token_expiry = NoExpiry]]

\* activate_token with a filter on the token alone
activate_update_any_user(coll, user_id, token, t) ==
    LET i == FirstMatch({j \in DOMAIN coll : coll[j].token = token})
    IN  IF i = 0
        THEN coll
        ELSE [coll EXCEPT ![i] = [@ EXCEPT !.token_status = "active",
                                           !.token_expiry = t + TOKEN_EXPIRY_HOURS]]

\* the collection after activate_token's update_one at clock reading t
activate_update(coll, user_id, token, t) ==
    LET i == FirstMatch({j \in DOMAIN coll :
                            coll[j].user_id = user_id /\ coll[j].token = token})
    IN  IF i = 0
        THEN coll
        ELSE [coll EXCEPT ![i] = [@ EXCEPT !.token_status = "active",
                                           !.token_expiry = t + TOKEN_EXPIRY_HOURS]]

\* result.modified_count: the documents the update changed
modified_count(before, after) ==
    Cardinality({i \in DOMAIN before : before[i] # after[i]})

\* the value activate_token returns
activate_token(coll, user_id, token, t) ==
    modified_count(coll, activate_update(coll, user_id, token, t)) > 0

\* has_valid_token with > for <
has_valid_token_reversed(coll, user_id, t) ==
    LET user_data == find_one(coll, user_id)
    IN  IF user_data # <<>> /\ user_data[1].token_status = "active"
        THEN t > user_data[1].token_expiry
        ELSE FALSE

\* has_valid_token with <= for <
has_valid_token_inclusive(coll, user_id, t) ==
    LET user_data == find_one(coll, user_id)
    IN  IF user_data # <<>> /\ user_data[1].token_status = "active"
        THEN t <= user_data[1].token_expiry
        ELSE FALSE

has_valid_token(coll, user_id, t) ==
    LET user_data == find_one(coll, user_id)
    IN  IF user_data # <<>> /\ user_data[1].token_status = "active"
        THEN t < user_data[1].token_expiry
        ELSE FALSE

----------------------------------------------------------------------------
(* /start: the call on the collection and the caption it yields; the reply
   that carries the caption changes nothing kept here *)

start_handler(user_id, command) ==
    /\ IF Len(command) > 1 /\ command[2].len = 36
       THEN LET token == command[2]
            IN  /\ collection' = activate_update(collection, user_id, token, now)
                /\ start_reply' =
                       [user |-> user_id, command |-> command,
                        caption |-> IF activate_token(collection, user_id, token, now)
                                    THEN "activated" ELSE "invalid"]
                /\ UNCHANGED next_uuid
       ELSE IF ~has_valid_token(collection, user_id, now)
            THEN /\ next_uuid < MaxTokens
                 /\ next_uuid' = next_uuid + 1
                 /\ collection' =
                        generate_uuid(collection, user_id, uuid4_str(next_uuid + 1))
                 /\ start_reply' = [user |-> user_id, command |-> command,
                                    caption |-> "generate"]
            ELSE /\ start_reply' = [user |-> user_id, command |-> command,
                                    caption |-> "already"]
                 /\ UNCHANGED <<collection, next_uuid>>
    /\ UNCHANGED now

StartHandler ==
    \E user_id \in Users, command \in Commands : start_handler(user_id, command)

\* time passes
Tick ==
    /\ now < MaxTime
    /\ now' = now + 1
    /\ UNCHANGED <<collection, next_uuid, start_reply>>

TokenInit ==
    /\ collection = <<>>
    /\ now = 0
    /\ next_uuid = 0
    /\ start_reply = [user |-> 0, command |-> <<>>, caption |-> "none"]

----------------------------------------------------------------------------
(* Local paths *)

\* f"{n:03d}": the decimal digits of n, zero-padded to three
Pad3(n) ==
    IF n < 1000
    THEN <<n \div 100, (n \div 10) % 10, n % 10>>
    ELSE <<n \div 1000, (n \div 100) % 10, (n \div 10) % 10, n % 10>>

\* download.files[0].path: no part suffix, no ".jpg"
Primary == [part |-> <<>>, thumb |-> FALSE]

\* split_video's output_path of iteration i of range(parts)
part_path(i) == [part |-> Pad3(i + 1), thumb |-> FALSE]

\* generate_thumbnail's thumbnail_path, f"{video_path}.jpg"
thumbnail_path(video_path) == [video_path EXCEPT !.thumb = TRUE]

\* math.ceil(a / b)
CeilDiv(a, b) == (a + b - 1) \div b

\* split_video's parts with // for math.ceil
parts_of_floor(size) == size \div DEFAULT_SPLIT_SIZE

\* split_video's parts
parts_of(size) == CeilDiv(size, DEFAULT_SPLIT_SIZE)

\* handle_upload's split_size without the test of user_client
split_size_default == DEFAULT_SPLIT_SIZE

\* handle_upload's split_size
split_size == IF user_client THEN VIP_SPLIT_SIZE ELSE DEFAULT_SPLIT_SIZE

\* safe_remove, os.remove
remove(files, path) == files \ {path}

RemoveAll(files, paths) == files \ {paths[i] : i \in DOMAIN paths}

----------------------------------------------------------------------------
(* Links: a word is modelled by what urlparse finds in it, the host as its
   dot-separated labels; a word that is no URL has an empty netloc *)

VALID_DOMAINS ==
    {<<"terabox", "com">>, <<"nephobox", "com">>, <<"4funbox", "com">>,
     <<"mirrobox", "com">>, <<"momerybox", "com">>, <<"teraboxapp", "com">>,
     <<"1024tera", "com">>, <<"terabox", "app">>, <<"gibibox", "com">>,
     <<"goaibox", "com">>, <<"terasharelink", "com">>,
     <<"teraboxlink", "com">>, <<"terafileshare", "com">>}

\* str.endswith
endswith(str, suffix) ==
    /\ Len(suffix) <= Len(str)
    /\ \A i \in 1..Len(suffix) : str[Len(str) - Len(suffix) + i] = suffix[i]

\* is_valid_url that accepts every word with a host
is_valid_url_any_host(url) == url.netloc # <<>>

is_valid_url(url) ==
    \E domain \in VALID_DOMAINS : endswith(url.netloc, domain)

\* "hello", "https://example.com/x", "https://www.terabox.com/s/1"
PlainWord == [netloc |-> <<>>]
ExampleLink == [netloc |-> <<"example", "com">>]
ShareLink == [netloc |-> <<"www", "terabox", "com">>]

\* message.text.split() of the text messages sent
Texts ==
    {<<PlainWord>>, <<ExampleLink>>, <<ShareLink>>, <<ExampleLink, ShareLink>>}

\* next((word for word in words if is_valid_url(word)), None), None as <<>>
first_link(words) ==
    LET i == FirstMatch({j \in DOMAIN words : is_valid_url(words[j])})
    IN  IF i = 0 THEN <<>> ELSE <<words[i]>>

----------------------------------------------------------------------------
(* The fetch daemon *)

\* the job completes: the artifact is on disk
DaemonComplete ==
    /\ job = "active"
    /\ job' = "complete"
    /\ \E size \in 1..MaxSize : file_size' = size
    /\ disk' = disk \cup {Primary}
    /\ UNCHANGED <<user_client, pc, req, submissions, dl, status_msg,
                   status_text, req_msg, replies, mode, sv_files, split_files,
                   split_bound, up_i, cur, thumb, sends, copies, raised,
                   cleanup_entered>>
    /\ UNCHANGED <<cleanup_tried, split_failed, edit_tries, pending, inflight>>

\* the job fails for good, with or without a partial artifact on disk
DaemonFail ==
    /\ job = "active"
    /\ job' = "error"
    /\ \E partial \in BOOLEAN :
           disk' = IF partial THEN disk \cup {Primary} ELSE disk
    /\ UNCHANGED <<user_client, pc, req, submissions, dl, file_size,
                   status_msg, status_text, req_msg, replies, mode, sv_files,
                   split_files, split_bound, up_i, cur, thumb, sends, copies,
                   raised, cleanup_entered>>
    /\ UNCHANGED <<cleanup_tried, split_failed, edit_tries, pending, inflight>>

----------------------------------------------------------------------------
(* handle_message and what it calls, one action per stretch between awaits *)

\* handle_message up to process_download's first await: the membership
\* check, the scan for a link, add_uris
HandleMessage ==
    /\ pc = "idle"
    /\ \E user_id \in Users, member \in BOOLEAN, text \in Texts :
          LET url == first_link(text)
              request == [user |-> user_id, member |-> member, text |-> text,
                          replied |-> "none"]
          IN  IF ~member
              THEN /\ req' = [request EXCEPT !.replied = "join"]
                   /\ \E sent \in BOOLEAN :
                         replies' = IF sent THEN replies \cup {"join"} ELSE replies
                   /\ pc' = "done"
                   /\ UNCHANGED <<submissions, job, dl, raised>>
              ELSE IF url = <<>>
              THEN /\ req' = [request EXCEPT !.replied = "invalid_link"]
                   /\ \E sent \in BOOLEAN :
                         replies' = IF sent THEN replies \cup {"invalid_link"}
                                    ELSE replies
                   /\ pc' = "done"
                   /\ UNCHANGED <<submissions, job, dl, raised>>
              ELSE /\ req' = [request EXCEPT !.replied = "none"]
                   /\ \E added \in BOOLEAN :
                         IF added
                         THEN /\ submissions' =
                                     Append(submissions,
                                            [user |-> user_id,
                                             valid |-> has_valid_token(
                                                           collection, user_id, now)])
                              /\ job' = "active"
                              /\ dl' = "active"
                              /\ pc' = "reply_status"
                              /\ UNCHANGED <<replies, raised>>
                         ELSE /\ raised' = "add_uris"
                              /\ pc' = "report_fail"
                              /\ UNCHANGED <<submissions, job, dl, replies>>
    /\ UNCHANGED <<user_client, file_size, disk, status_msg, status_text,
                   req_msg, mode, sv_files, split_files, split_bound, up_i,
                   cur, thumb, sends, copies, cleanup_entered>>
    /\ UNCHANGED <<cleanup_tried, split_failed, edit_tries, pending, inflight>>

\* process_download: status_message = await message.reply_text(...)
ReplyStatus ==
    /\ pc = "reply_status"
    /\ \E sent \in BOOLEAN :
          IF sent
          THEN /\ status_msg' = "shown"
               /\ status_text' = "starting"
               /\ pc' = "track"
               /\ UNCHANGED raised
          ELSE /\ raised' = "reply_text"
               /\ pc' = "report_fail"
               /\ UNCHANGED <<status_msg, status_text>>
    /\ UNCHANGED <<user_client, req, submissions, job, dl, file_size, disk,
                   req_msg, replies, mode, sv_files, split_files, split_bound,
                   up_i, cur, thumb, sends, copies, cleanup_entered>>
    /\ UNCHANGED <<cleanup_tried, split_failed, edit_tries, pending, inflight>>

\* track_download_progress: the loop test; on exit handle_upload up to the
\* first await of the branch it takes
Track ==
    /\ pc = "track"
    /\ IF dl # "complete"
       THEN /\ pc' = "sleep"
            /\ UNCHANGED <<mode, cur>>
       ELSE IF file_size > split_size
       THEN /\ mode' = "split"
            /\ pc' = "probe"
            /\ UNCHANGED cur
       ELSE /\ mode' = "direct"
            /\ cur' = <<Primary>>
            /\ pc' = "thumbnail"
    /\ UNCHANGED <<user_client, req, submissions, job, dl, file_size, disk,
                   status_msg, status_text, req_msg, replies, sv_files,
                   split_files, split_bound, up_i, thumb, sends, copies,
                   raised, cleanup_entered>>
    /\ UNCHANGED <<cleanup_tried, split_failed, edit_tries, pending, inflight>>

\* after asyncio.sleep(UPDATE_INTERVAL): download.update(), then safe_edit
Update ==
    /\ pc = "sleep"
    /\ \E answered \in BOOLEAN :
          IF answered
          THEN /\ dl' = job
               /\ edit_tries' = 1
               /\ pc' = "edit"
               /\ UNCHANGED raised
          ELSE /\ raised' = "update"
               /\ pc' = "cleanup"
               /\ UNCHANGED <<dl, edit_tries>>
    /\ UNCHANGED <<user_client, req, submissions, job, file_size, disk,
                   status_msg, status_text, req_msg, replies, mode, sv_files,
                   split_files, split_bound, up_i, cur, thumb, sends, copies,
                   cleanup_entered>>
    /\ UNCHANGED <<cleanup_tried, split_failed, pending, inflight>>

\* safe_edit: message.edit_text returns or raises; FloodWait sleeps and calls
\* safe_edit again, any other exception is logged
SafeEdit ==
    /\ pc = "edit"
    /\ \E outcome \in {"edited", "FloodWait", "Exception"} :
          /\ outcome = "FloodWait" => edit_tries < MaxEdits
          /\ status_text' = IF outcome = "edited" THEN "progress" ELSE status_text
          /\ edit_tries' = IF outcome = "FloodWait" THEN edit_tries + 1
                           ELSE edit_tries
          /\ pc' = IF outcome = "FloodWait" THEN "edit" ELSE "track"
    /\ UNCHANGED <<user_client, req, submissions, job, dl, file_size, disk,
                   status_msg, req_msg, replies, mode, sv_files, split_files,
                   split_bound, up_i, cur, thumb, sends, copies, raised,
                   cleanup_entered>>
    /\ UNCHANGED <<cleanup_tried, split_failed, pending, inflight>>

\* split_video: ffprobe and the parse of its output; an exception is logged
\* and raised again, and split_and_upload's finally then reads split_files,
\* which was never bound
Probe ==
    /\ pc = "probe"
    /\ \E probed \in BOOLEAN :
          IF probed
          THEN /\ sv_files' = <<>>
               /\ pc' = "ffmpeg"
               /\ UNCHANGED <<raised, split_failed>>
          ELSE /\ raised' = "split_video"
               /\ split_failed' = TRUE
               /\ pc' = "cleanup"
               /\ UNCHANGED sv_files
    /\ UNCHANGED <<user_client, req, submissions, job, dl, file_size, disk,
                   status_msg, status_text, req_msg, replies, mode,
                   split_files, split_bound, up_i, cur, thumb, sends, copies,
                   cleanup_entered>>
    /\ UNCHANGED <<cleanup_tried, edit_tries, pending, inflight>>

\* split_video: one iteration of for i in range(parts); ffmpeg writes the
\* part, or exits nonzero without one, or cannot be started; after the last
\* iteration the list is returned and bound
Ffmpeg ==
    /\ pc = "ffmpeg"
    /\ LET i == Len(sv_files)
           output_path == part_path(i)
       IN  \E outcome \in {"written", "nonzero", "OSError"} :
              IF outcome = "OSError"
              THEN /\ raised' = "split_video"
                   /\ split_failed' = TRUE
                   /\ pc' = "cleanup"
                   /\ UNCHANGED <<sv_files, disk, split_files, split_bound>>
              ELSE /\ disk' = IF outcome = "written"
                              THEN disk \cup {output_path} ELSE disk
                   /\ split_failed' = (split_failed \/ outcome = "nonzero")
                   /\ sv_files' = Append(sv_files, output_path)
                   /\ IF i + 1 = parts_of(file_size)
                      THEN /\ split_files' = sv_files'
                           /\ split_bound' = TRUE
                           /\ pc' = "next_part"
                      ELSE /\ pc' = "ffmpeg"
                           /\ UNCHANGED <<split_files, split_bound>>
                   /\ UNCHANGED raised
    /\ UNCHANGED <<user_client, req, submissions, job, dl, file_size,
                   status_msg, status_text, req_msg, replies, mode, up_i, cur,
                   thumb, sends, copies, cleanup_entered>>
    /\ UNCHANGED <<cleanup_tried, edit_tries, pending, inflight>>

\* split_and_upload: for part in split_files, and after the loop the finally
\* that removes every part
NextPart ==
    /\ pc = "next_part"
    /\ IF up_i < Len(split_files)
       THEN /\ up_i' = up_i + 1
            /\ cur' = <<split_files[up_i + 1]>>
            /\ pc' = "thumbnail"
            /\ UNCHANGED disk
       ELSE /\ disk' = RemoveAll(disk, split_files)
            /\ pc' = "cleanup"
            /\ UNCHANGED <<up_i, cur>>
    /\ UNCHANGED <<user_client, req, submissions, job, dl, file_size,
                   status_msg, status_text, req_msg, replies, mode, sv_files,
                   split_files, split_bound, thumb, sends, copies, raised,
                   cleanup_entered>>
    /\ UNCHANGED <<cleanup_tried, split_failed, edit_tries, pending, inflight>>

\* upload_file: generate_thumbnail and get_video_metadata, neither raises
Thumbnail ==
    /\ pc = "thumbnail"
    /\ \E made \in BOOLEAN :
          IF made /\ cur[1] \in disk
          THEN /\ thumb' = <<thumbnail_path(cur[1])>>
               /\ disk' = disk \cup {thumbnail_path(cur[1])}
          ELSE /\ thumb' = <<>>
               /\ UNCHANGED disk
    /\ pc' = "send"
    /\ UNCHANGED <<user_client, req, submissions, job, dl, file_size,
                   status_msg, status_text, req_msg, replies, mode, sv_files,
                   split_files, split_bound, up_i, cur, sends, copies, raised,
                   cleanup_entered>>
    /\ UNCHANGED <<cleanup_tried, split_failed, edit_tries, pending, inflight>>

\* upload_file: client.send_video
SendVideo ==
    /\ pc = "send"
    /\ sends' = Append(sends, cur[1])
    /\ \E sent \in BOOLEAN : pc' = IF sent THEN "copy" ELSE "report"
    /\ UNCHANGED <<user_client, req, submissions, job, dl, file_size, disk,
                   status_msg, status_text, req_msg, replies, mode, sv_files,
                   split_files, split_bound, up_i, cur, thumb, copies, raised,
                   cleanup_entered>>
    /\ UNCHANGED <<cleanup_tried, split_failed, edit_tries, pending, inflight>>

\* upload_file's finally: the thumbnail is removed when there is one
without_thumbnail == IF thumb # <<>> THEN remove(disk, thumb[1]) ELSE disk

\* upload_file returns: the loop of split_and_upload goes on, or
\* direct_upload's finally removes the file and process_download's finally
\* calls cleanup
UploadReturns ==
    /\ cur' = <<>>
    /\ thumb' = <<>>
    /\ IF mode = "split"
       THEN /\ disk' = without_thumbnail
            /\ pc' = "next_part"
       ELSE /\ disk' = remove(without_thumbnail, cur[1])
            /\ pc' = "cleanup"

\* upload_file raises: the finally of split_and_upload or of direct_upload
\* runs, then process_download's
UploadRaises ==
    /\ cur' = <<>>
    /\ thumb' = <<>>
    /\ raised' = "upload_file"
    /\ disk' = IF mode = "split"
               THEN RemoveAll(without_thumbnail, split_files)
               ELSE remove(without_thumbnail, cur[1])
    /\ pc' = "cleanup"

\* upload_file: bot.copy_message
CopyMessage ==
    /\ pc = "copy"
    /\ \E copied \in BOOLEAN :
          IF copied
          THEN /\ copies' = copies \cup {cur[1]}
               /\ UploadReturns
          ELSE /\ pc' = "report"
               /\ UNCHANGED <<copies, cur, thumb, disk>>
    /\ UNCHANGED <<user_client, req, submissions, job, dl, file_size,
                   status_msg, status_text, req_msg, replies, mode, sv_files,
                   split_files, split_bound, up_i, sends, raised,
                   cleanup_entered>>
    /\ UNCHANGED <<cleanup_tried, split_failed, edit_tries, pending, inflight>>

\* upload_file's except: status_message.edit_text, not guarded
ReportUploadFailure ==
    /\ pc = "report"
    /\ \E edited \in BOOLEAN :
          IF edited
          THEN /\ status_text' = "upload_failed"
               /\ UploadReturns
               /\ UNCHANGED raised
          ELSE /\ UploadRaises
               /\ UNCHANGED status_text
    /\ UNCHANGED <<user_client, req, submissions, job, dl, file_size,
                   status_msg, req_msg, replies, mode, sv_files, split_files,
                   split_bound, up_i, sends, copies, cleanup_entered>>
    /\ UNCHANGED <<cleanup_tried, split_failed, edit_tries, pending, inflight>>

\* send_video's progress callback, called while the upload runs:
\* asyncio.create_task(upload_progress(...))
ProgressCallback ==
    /\ pc = "send"
    /\ pending + inflight < MaxProgress
    /\ pending' = pending + 1
    /\ UNCHANGED <<user_client, pc, req, submissions, job, dl, file_size,
                   disk, status_msg, status_text, req_msg, replies, mode,
                   sv_files, split_files, split_bound, up_i, cur, thumb,
                   sends, copies, raised, cleanup_entered>>
    /\ UNCHANGED <<cleanup_tried, split_failed, edit_tries, inflight>>

\* an upload_progress task runs up to its await of status_message.edit_text
ProgressEdit ==
    /\ pending > 0
    /\ pending' = pending - 1
    /\ inflight' = inflight + 1
    /\ UNCHANGED <<user_client, pc, req, submissions, job, dl, file_size,
                   disk, status_msg, status_text, req_msg, replies, mode,
                   sv_files, split_files, split_bound, up_i, cur, thumb,
                   sends, copies, raised, cleanup_entered>>
    /\ UNCHANGED <<cleanup_tried, split_failed, edit_tries>>

\* the edit_text of an upload_progress task returns or raises; the exception
\* is logged
ProgressEdited ==
    /\ inflight > 0
    /\ inflight' = inflight - 1
    /\ \E edited \in BOOLEAN :
          status_text' = IF edited /\ status_msg = "shown"
                         THEN "upload_progress" ELSE status_text
    /\ UNCHANGED <<user_client, pc, req, submissions, job, dl, file_size,
                   disk, status_msg, req_msg, replies, mode, sv_files,
                   split_files, split_bound, up_i, cur, thumb, sends, copies,
                   raised, cleanup_entered>>
    /\ UNCHANGED <<cleanup_tried, split_failed, edit_tries, pending>>

\* where handle_message goes on when cleanup returns
after_cleanup == IF raised # "none" THEN "report_fail" ELSE "done"

\* cleanup: status_message.delete(); an exception ends cleanup
DeleteStatus ==
    /\ pc = "cleanup"
    /\ cleanup_entered' = TRUE
    /\ cleanup_tried' = {"status"}
    /\ \E deleted \in BOOLEAN :
          IF deleted
          THEN /\ status_msg' = "deleted"
               /\ pc' = "delete_request"
          ELSE /\ pc' = after_cleanup
               /\ UNCHANGED status_msg
    /\ UNCHANGED <<user_client, req, submissions, job, dl, file_size, disk,
                   status_text, req_msg, replies, mode, sv_files, split_files,
                   split_bound, up_i, cur, thumb, sends, copies, raised>>
    /\ UNCHANGED <<split_failed, edit_tries, pending, inflight>>

\* cleanup: original_message.delete(), then the artifact is removed
DeleteRequest ==
    /\ pc = "delete_request"
    /\ \E deleted \in BOOLEAN :
          IF deleted
          THEN /\ req_msg' = "deleted"
               /\ disk' = remove(disk, Primary)
               /\ cleanup_tried' = cleanup_tried \cup {"request", "file"}
          ELSE /\ cleanup_tried' = cleanup_tried \cup {"request"}
               /\ UNCHANGED <<req_msg, disk>>
    /\ pc' = after_cleanup
    /\ UNCHANGED <<user_client, req, submissions, job, dl, file_size,
                   status_msg, status_text, replies, mode, sv_files,
                   split_files, split_bound, up_i, cur, thumb, sends, copies,
                   raised, cleanup_entered>>
    /\ UNCHANGED <<split_failed, edit_tries, pending, inflight>>

\* handle_message's except: message.reply_text
ReportFailure ==
    /\ pc = "report_fail"
    /\ \E sent \in BOOLEAN :
          replies' = IF sent THEN replies \cup {"failed"} ELSE replies
    /\ pc' = "done"
    /\ UNCHANGED <<user_client, req, submissions, job, dl, file_size, disk,
                   status_msg, status_text, req_msg, mode, sv_files,
                   split_files, split_bound, up_i, cur, thumb, sends, copies,
                   raised, cleanup_entered>>
    /\ UNCHANGED <<cleanup_tried, split_failed, edit_tries, pending, inflight>>

----------------------------------------------------------------------------
(* Concurrent pipelines and the artifact paths: process_download of several
   text messages, each seen through what it does to the daemon's directory *)

Pipelines == {"a", "b"}

\* the share links requested
ShareLinks == {"s/1", "s/2"}

\* download.files[0].path: add_uris passes no dir and no out option, so the
\* daemon puts the artifact of a link under its directory with the name it
\* draws from the link
path_of(link) == [dir |-> "downloads", name |-> link]

\* the other pipelines that are downloading to the path or uploading from it
InUseByOthers(r, path) ==
    {o \in Pipelines \ {r} :
        /\ runs[o].pc \in {"downloading", "uploading"}
        /\ path_of(runs[o].link) = path}

\* add_uris: the daemon starts writing the artifact; allow-overwrite is true
RunSubmit(r) ==
    /\ runs[r].pc = "idle"
    /\ \E link \in ShareLinks :
          /\ runs' = [runs EXCEPT ![r] = [pc |-> "downloading", link |-> link]]
          /\ artifacts' = artifacts \cup {path_of(link)}
          /\ disturbed' = disturbed \cup InUseByOthers(r, path_of(link))

\* track_download_progress sees the download complete, or update() raises
RunTracked(r) ==
    /\ runs[r].pc = "downloading"
    /\ \E complete \in BOOLEAN :
          runs' = [runs EXCEPT ![r].pc = IF complete THEN "uploading"
                                          ELSE "cleanup"]
    /\ UNCHANGED <<artifacts, disturbed>>

\* os.remove of the artifact by pipeline r, when it exists
Removed(r) ==
    LET path == path_of(runs[r].link)
    IN  IF path \in artifacts
        THEN /\ artifacts' = artifacts \ {path}
             /\ disturbed' = disturbed \cup InUseByOthers(r, path)
        ELSE UNCHANGED <<artifacts, disturbed>>

\* handle_upload returns: direct_upload's finally has removed the artifact,
\* split_and_upload's the parts
RunUploaded(r) ==
    /\ runs[r].pc = "uploading"
    /\ runs' = [runs EXCEPT ![r].pc = "cleanup"]
    /\ \E direct \in BOOLEAN :
          IF direct THEN Removed(r) ELSE UNCHANGED <<artifacts, disturbed>>

\* cleanup: the artifact is removed if it exists, unless a delete raised
RunCleanup(r) ==
    /\ runs[r].pc = "cleanup"
    /\ runs' = [runs EXCEPT ![r].pc = "done"]
    /\ \E reached \in BOOLEAN :
          IF reached THEN Removed(r) ELSE UNCHANGED <<artifacts, disturbed>>

PathInit ==
    /\ runs = [r \in Pipelines |-> [pc |-> "idle", link |-> "none"]]
    /\ artifacts = {}
    /\ disturbed = {}

RunStep ==
    \E r \in Pipelines :
        RunSubmit(r) \/ RunTracked(r) \/ RunUploaded(r) \/ RunCleanup(r)

----------------------------------------------------------------------------
(* Specifications *)

PipeInit ==
    /\ user_client \in BOOLEAN
    /\ pc = "idle"
    /\ req = [user |-> 0, member |-> FALSE, text |-> <<>>, replied |-> "none"]
    /\ submissions = <<>>
    /\ job = "none"
    /\ dl = "none"
    /\ file_size = 0
    /\ disk = {}
    /\ status_msg = "none"
    /\ status_text = "none"
    /\ req_msg = "shown"
    /\ replies = {}
    /\ mode = "none"
    /\ sv_files = <<>>
    /\ split_files = <<>>
    /\ split_bound = FALSE
    /\ up_i = 0
    /\ cur = <<>>
    /\ thumb = <<>>
    /\ sends = <<>>
    /\ copies = {}
    /\ raised = "none"
    /\ cleanup_entered = FALSE
    /\ cleanup_tried = {}
    /\ split_failed = FALSE
    /\ edit_tries = 0
    /\ pending = 0
    /\ inflight = 0

Init == TokenInit /\ PipeInit /\ PathInit

\* the steps of the handle_message task
Handler ==
    \/ HandleMessage
    \/ ReplyStatus
    \/ Track
    \/ Update
    \/ SafeEdit
    \/ Probe
    \/ Ffmpeg
    \/ NextPart
    \/ Thumbnail
    \/ SendVideo
    \/ CopyMessage
    \/ ReportUploadFailure
    \/ DeleteStatus
    \/ DeleteRequest
    \/ ReportFailure

\* the upload_progress tasks
Progress == ProgressCallback \/ ProgressEdit \/ ProgressEdited

Daemon == DaemonComplete \/ DaemonFail

TokenNext == (StartHandler \/ Tick) /\ UNCHANGED <<pipe_vars, path_vars>>

PipeNext ==
    (Handler \/ Progress \/ Daemon) /\ UNCHANGED <<token_vars, path_vars>>

\* a deployment without USER_SESSION_STRING
PlainInit == Init /\ ~user_client

\* the token lifecycle
TokenSpec == PlainInit /\ [][TokenNext]_vars

\* the pipeline of one text message
PipeSpec == Init /\ [][PipeNext]_vars

\* the pipeline, its task scheduled whenever it can take a step
FairPipeSpec ==
    PipeSpec /\ WF_vars(Handler /\ UNCHANGED <<token_vars, path_vars>>)

\* the token lifecycle and the entry of the pipeline
GateNext ==
    TokenNext \/ (HandleMessage /\ UNCHANGED <<token_vars, path_vars>>)

GateSpec == PlainInit /\ [][GateNext]_vars

PathNext == RunStep /\ UNCHANGED <<token_vars, pipe_vars>>

\* concurrent pipelines and the artifacts in the daemon's directory
PathSpec == PlainInit /\ [][PathNext]_vars

Next == TokenNext \/ PipeNext \/ PathNext

Spec == Init /\ [][Next]_vars

----------------------------------------------------------------------------
(* Properties *)

\* the token stored for the user, <<>> when the user has no document
token_of(coll, user_id) ==
    LET S == {i \in DOMAIN coll : coll[i].user_id = user_id}
    IN  IF S = {} THEN <<>> ELSE <<coll[CHOOSE i \in S : TRUE].token>>

\* a /start message carrying the k-th token
Presenting(k) == <<"start", uuid4_str(k)>>

\* C1: a fetch job is submitted for a text message of a user only if the
\* user then has an active token that has not expired.
C1_SubmitOnlyWithValidToken ==
    \A i \in DOMAIN submissions : submissions[i].valid

\* C2: when the handler has returned and a fetch job was submitted, cleanup
\* was entered, whichever stage failed.
C2_CleanupAlwaysEntered ==
    (pc = "done" /\ submissions # <<>>) => cleanup_entered

\* C3: once the fetch job has failed, the handler eventually returns.
C3_FailedJobTerminates ==
    (job = "error") ~> (pc = "done")

\* C4: when the handler has returned, no local file remains: not the
\* artifact, not a part, not a thumbnail; stated for the runs in which the
\* download was seen complete and cleanup deleted both messages, where
\* cleanup has removed the artifact.
C4_NoLocalFileRemains ==
    (/\ pc = "done"
     /\ mode # "none"
     /\ status_msg = "deleted"
     /\ req_msg = "deleted") => disk = {}

\* C5: no exception ever leaves upload_file.
C5_UploadFileNeverRaises ==
    raised # "upload_file"

\* C6: when user v presents a 36-character token that is not the one
\* stored for v (the one stored for another user u included), the answer is
\* "invalid" and no document changes.
C6_OnlyOwnerActivates ==
    [][\A v \in Users, k \in 1..MaxTokens :
          (/\ token_of(collection, v) # <<uuid4_str(k)>>
           /\ start_handler(v, Presenting(k)))
              => (/\ start_reply'.caption = "invalid"
                  /\ collection' = collection)]_vars

\* C6 happens: v, who has a token of their own, presented the token stored
\* for another user u and was refused.
C6_Witness ==
    \E u, v \in Users :
        /\ u # v
        /\ start_reply.user = v
        /\ start_reply.caption = "invalid"
        /\ Len(start_reply.command) = 2
        /\ token_of(collection, u) = <<start_reply.command[2]>>
        /\ token_of(collection, v) # <<>>

OneRecordPerUser(coll) ==
    \A u \in Users : Cardinality({i \in DOMAIN coll : coll[i].user_id = u}) <= 1

\* the documents of the users other than user_id
OthersOf(coll, user_id) ==
    {coll[i] : i \in {j \in DOMAIN coll : coll[j].user_id # user_id}}

\* C7: there is at most one document per user; a /start without a token
\* from a user with no valid token leaves that user one document, inactive,
\* without expiry, whose token no document held before; presenting a token
\* drawn earlier that is not the stored one answers "invalid" and changes
\* nothing.
C7_IssueReplaces ==
    [][/\ OneRecordPerUser(collection)
       /\ OneRecordPerUser(collection')
       /\ \A u \in Users, c \in {<<"start">>, <<"start", ShortArg>>} :
             (start_handler(u, c) /\ ~has_valid_token(collection, u, now))
                 => LET d == find_one(collection', u)
                    IN  /\ d # <<>>
                        /\ d[1].token_status = "inactive"
                        /\ d[1].token_expiry = NoExpiry
                        /\ \A i \in DOMAIN collection :
                               collection[i].token # d[1].token
                        /\ OthersOf(collection', u) = OthersOf(collection, u)
       /\ \A u \in Users, k \in 1..MaxTokens :
             (/\ k <= next_uuid
              /\ token_of(collection, u) # <<>>
              /\ token_of(collection, u) # <<uuid4_str(k)>>
              /\ start_handler(u, Presenting(k)))
                 => (/\ start_reply'.caption = "invalid"
                     /\ collection' = collection)]_vars

\* C7 happens: the only user with a document was issued two tokens and
\* presented the first, which was refused.
C7_Witness ==
    \E u \in Users :
        /\ Len(collection) = 1
        /\ next_uuid = 2
        /\ token_of(collection, u) = <<uuid4_str(2)>>
        /\ start_reply = [user |-> u, command |-> Presenting(1),
                          caption |-> "invalid"]

\* C8: presenting the stored token of an already active document answers
\* "activated" and leaves an expiry of at least now + 12h.
C8_ActivationIdempotent ==
    [][\A u \in Users, k \in 1..MaxTokens :
          (/\ find_one(collection, u) # <<>>
           /\ find_one(collection, u)[1].token = uuid4_str(k)
           /\ find_one(collection, u)[1].token_status = "active"
           /\ start_handler(u, Presenting(k)))
              => (/\ start_reply'.caption = "activated"
                  /\ find_one(collection', u)[1].token_expiry
                         >= now + TOKEN_EXPIRY_HOURS)]_vars

\* a document of the user is active and not yet expired at t
ValidRecord(coll, user_id, t) ==
    \E i \in DOMAIN coll :
        /\ coll[i].user_id = user_id
        /\ coll[i].token_status = "active"
        /\ t < coll[i].token_expiry

\* C9: has_valid_token is true exactly when the user has an active document
\* with now < expiry; the passing of time changes no document, and a
\* user's document changes only when that user is issued a token or
\* activates one.
C9_ValidIsPureComparison ==
    [][/\ \A u \in Users :
             /\ has_valid_token(collection, u, now)
                    <=> ValidRecord(collection, u, now)
             /\ has_valid_token(collection', u, now')
                    <=> ValidRecord(collection', u, now')
             /\ find_one(collection', u) # find_one(collection, u)
                    => /\ start_reply'.user = u
                       /\ start_reply'.caption \in {"generate", "activated"}
       /\ now' # now => collection' = collection]_vars

\* C9 happens: an active document whose expiry is in the past, for which
\* has_valid_token is false.
C9_Witness ==
    \E u \in Users :
        /\ find_one(collection, u) # <<>>
        /\ find_one(collection, u)[1].token_status = "active"
        /\ find_one(collection, u)[1].token_expiry < now
        /\ ~has_valid_token(collection, u, now)

\* the number a zero-padded suffix reads as
SuffixValue(digits) ==
    IF Len(digits) = 3
    THEN 100 * digits[1] + 10 * digits[2] + digits[3]
    ELSE -1

Refused ==
    /\ req.user # 0
    /\ \/ ~req.member
       \/ \A i \in DOMAIN req.text : req.text[i] # ShareLink

Ceiling == IF user_client THEN VIP_SPLIT_SIZE ELSE DEFAULT_SPLIT_SIZE

\* C12: the split branch is taken exactly for a size above the ceiling, the
\* direct branch exactly for a size up to the ceiling, where the one unit
\* sent is the artifact itself.
C12_SplitIffAboveCeiling ==
    /\ mode = "split" =>
          /\ file_size > Ceiling
          /\ \A i \in DOMAIN sends : sends[i] # Primary
    /\ mode = "direct" =>
          /\ file_size <= Ceiling
          /\ Len(sends) <= 1
          /\ \A i \in DOMAIN sends : sends[i] = Primary
    /\ pc \in {"probe", "ffmpeg", "next_part", "thumbnail", "send", "copy", "report"}
          => mode # "none"

\* C12 happens: with the second client, an artifact one unit above 4GiB was
\* split and a part sent.
C12_Witness ==
    /\ user_client
    /\ file_size = VIP_SPLIT_SIZE + 1
    /\ mode = "split"
    /\ sends # <<>>

\* C20: a /start without a 36-character argument from a user with a valid
\* token answers "already" and changes no document and draws no token; a
\* token is drawn only for a sender without a valid token.
C20_StartKeepsValidToken ==
    [][/\ \A u \in Users, c \in {<<"start">>, <<"start", ShortArg>>} :
             (ValidRecord(collection, u, now) /\ start_handler(u, c))
                 => /\ start_reply'.caption = "already"
                    /\ collection' = collection
                    /\ next_uuid' = next_uuid
       /\ next_uuid' # next_uuid
             => ~ValidRecord(collection, start_reply'.user, now)]_vars

\* C20 happens: a user with a valid token sent /start and was told so.
C20_Witness ==
    /\ start_reply.caption = "already"
    /\ ValidRecord(collection, start_reply.user, now)

\* cleanup was called and has returned
CleanupReturned == cleanup_entered /\ pc \in {"report_fail", "done"}

\* C13: when cleanup has returned, each of its three actions was attempted:
\* deleting the status message, deleting the request message, removing the
\* artifact.
C13_CleanupActionsIndependent ==
    CleanupReturned => cleanup_tried = {"status", "request", "file"}

\* the edit_text calls on the status message that have not returned
EditsInFlight == inflight + (IF pc \in {"edit", "report"} THEN 1 ELSE 0)

\* C14: at most one edit of the status message is in flight.
C14_EditsSequential ==
    EditsInFlight <= 1

\* C15: no upload attempt is made before the download was seen complete;
\* once cleanup has begun no upload is running and no progress update of
\* the pipeline is waiting or in flight.
C15_StepsInOrder ==
    /\ (cur # <<>> \/ sends # <<>>) => dl = "complete"
    /\ cleanup_entered =>
          /\ cur = <<>>
          /\ pending = 0
          /\ inflight = 0

\* C16: once ffprobe or the ffmpeg of a part has failed, split_video returns
\* no list and no part is sent.
C16_SplitFailureAborts ==
    split_failed => (~split_bound /\ sends = <<>>)

\* C17: one safe_edit call makes at most two edit_text calls: the first and
\* one retry.
C17_EditRetriesBounded ==
    edit_tries <= 2

\* C18: when the upload loop of the split path is left, send_video was
\* called exactly once on every part, in order.
C18_OneSendPerPart ==
    (split_bound /\ pc \in {"cleanup", "delete_request", "report_fail", "done"})
        => sends = split_files

\* C19: no pipeline's artifact is written or removed by another pipeline
\* while the first is downloading to it or uploading from it.
C19_PathsExclusive ==
    disturbed = {}

====
